---------------------------- MODULE Spec2Model ----------------------------
(*************************************************************************)
(* Field validation of saward/go-forms.                                  *)
(*                                                                       *)
(* The repository holds one package twice: the "Is*" family, whose       *)
(* checks append to the Errors map through AddError, and the wrapped     *)
(* family, whose checks build an error with fmt.Errorf and hand it to    *)
(* Validate.  A Go string is modelled by a TLA+ string, one TLA+         *)
(* character per character (all of them ASCII); the value of the length  *)
(* check, whose bytes are counted, is the sequence of its Unicode code   *)
(* points.  Errors is a function from the keys present in the map to the *)
(* sequence of messages stored under each.                               *)
(*************************************************************************)
EXTENDS Integers, Sequences, FiniteSets, TLC

(* ---------------------------- bounds -------------------------------- *)

\* Check invocations made on each Errors map in one validation pass.
MaxCalls == 2
\* Longest value string handed to a string check in a single call.
MaxLen == 3
\* Longest caller-supplied message in a single call.
MaxMsgLen == 3
\* Largest slice or map handed to a container check in a single call.
MaxSize == 3
\* Goroutines that call the recorders on one map at the same time.
MaxGoroutines == 2

(* ---------------------------- strings ------------------------------- *)

\* s[i] of a Go string, as a one-character string.
CharAt(s, i) == SubSeq(s, i, i)

\* All strings over the characters of alphabet of length at most k.
RECURSIVE StringsOver(_, _)
StringsOver(alphabet, k) ==
    IF k = 0 THEN {""}
    ELSE LET shorter == StringsOver(alphabet, k - 1)
         IN  shorter \cup {s \o c : s \in shorter, c \in alphabet}

\* All sequences of the code points of runes of length at most k.
RECURSIVE RunesOver(_, _)
RunesOver(runes, k) ==
    IF k = 0 THEN {<<>>}
    ELSE LET shorter == RunesOver(runes, k - 1)
         IN  shorter \cup {Append(s, r) : s \in shorter, r \in runes}

\* Bytes of the UTF-8 encoding of code point r.
Utf8Len(r) ==
    IF r < 128 THEN 1 ELSE IF r < 2048 THEN 2 ELSE IF r < 65536 THEN 3 ELSE 4

\* len(v) of a Go string, given as its code points: its length in bytes.
RECURSIVE len(_)
len(v) == IF v = <<>> THEN 0 ELSE Utf8Len(Head(v)) + len(Tail(v))

\* fmt's %d of an integer: its decimal digits, with a sign when negative.
FmtD(i) == ToString(i)

\* The flag characters fmt skips between '%' and the verb.
FmtFlags == {"#", "0", "+", "-", " "}

\* fmt.Sprintf(format) with no operands, as fmt.Errorf(format) runs it:
\* text is copied up to a '%'; after it the flags are skipped, then a verb
\* of '%' writes one '%', any other verb has no operand to print and
\* writes %!verb(MISSING), and a '%' with no verb writes %!(NOVERB).
\* (Widths, precisions and argument indexes are not in the alphabets.)
RECURSIVE SkipFlags(_)
SkipFlags(s) ==
    IF s # "" /\ CharAt(s, 1) \in FmtFlags THEN SkipFlags(Tail(s)) ELSE s

RECURSIVE SprintfNoArgs(_)
SprintfNoArgs(format) ==
    IF format = "" THEN ""
    ELSE IF CharAt(format, 1) # "%"
         THEN CharAt(format, 1) \o SprintfNoArgs(Tail(format))
         ELSE LET rest == SkipFlags(Tail(format))
              IN  IF rest = "" THEN "%!(NOVERB)"
                  ELSE IF CharAt(rest, 1) = "%"
                       THEN "%" \o SprintfNoArgs(Tail(rest))
                       ELSE "%!" \o CharAt(rest, 1) \o "(MISSING)"
                                 \o SprintfNoArgs(Tail(rest))

(* ---------------------------- errors -------------------------------- *)

\* A Go error value: nil, or an error whose Error() is msg.
NilError == [isNil |-> TRUE, msg |-> ""]

\* fmt.Errorf(format): never nil, its text is the formatted format.
Errorf(format) == [isNil |-> FALSE, msg |-> SprintfNoArgs(format)]

\* errors.New(msg), the error a caller of Validate passes.
NewError(msg) == [isNil |-> FALSE, msg |-> msg]

\* The empty Errors map.
EmptyErrors == [k \in {} |-> <<>>]

\* Lookup gone wrong: the slice stored under field is never found.
LookupNil(errors, field) == <<>>

\* errors[field]: the stored slice, or the nil slice for a missing key.
Lookup(errors, field) ==
    IF field \in DOMAIN errors THEN errors[field] ELSE <<>>

\* errors[field] = slice.
Store(errors, field, slice) ==
    [k \in DOMAIN errors \cup {field} |->
        IF k = field THEN slice ELSE errors[k]]


(* ---------------------------- integers ------------------------------ *)

\* Four of the types of NumericComparable: signed and unsigned, of two
\* widths.
NumericComparable == {"int8", "uint8", "int16", "uint16"}

Signed(T) == T \in {"int8", "int16"}

Width(T) == IF T \in {"int8", "uint8"} THEN 8 ELSE 16

\* The least and the greatest value of type T.
MinOf(T) == IF Signed(T) THEN -(2 ^ (Width(T) - 1)) ELSE 0
MaxOf(T) == IF Signed(T) THEN 2 ^ (Width(T) - 1) - 1 ELSE 2 ^ Width(T) - 1

\* The bits that hold integer i in a variable of type T (two's complement).
Bits(T, i) == i % (2 ^ Width(T))

\* The integer that bits b denote in type T.
ValueOf(T, b) ==
    IF Signed(T) /\ b >= 2 ^ (Width(T) - 1) THEN b - 2 ^ Width(T) ELSE b

\* Less gone wrong: the bits are compared as unsigned whatever the type.
LessUnsigned(T, a, b) == a < b

\* a < b on two variables of type T holding bits a and b: the comparison
\* the type selects, signed for the signed types.
Less(T, a, b) == ValueOf(T, a) < ValueOf(T, b)

(* ---------------------------- containers ---------------------------- *)

\* A slice of k elements, and a map of k keys (a map[int]string here,
\* its keys 10, 20, ...).
SliceOf(k) == [i \in 1..k |-> "x"]
MapOf(k) == [key \in {10 * i : i \in 1..k} |-> "x"]

\* len(v) of a slice or a map: its number of entries.
lenOf(v) == Cardinality(DOMAIN v)

(* ---------------------------- patterns ------------------------------ *)

\* The source text of EmailRx.
EmailRx == "^\\S+@\\S+$"

\* A pattern of the caller's, for Regex.
LettersRx == "^a+$"

\* IsSpace gone wrong: only the blank counts as white space.
IsBlank(c) == c = " "

\* The class \s of Go's regexp: space, tab, newline, form feed, return.
IsSpace(c) == c \in {" ", "\t", "\n", "\f", "\r"}

\* Every character of s is in the class \S, and s is not empty: \S+.
NonSpaceRun(s) ==
    /\ s # ""
    /\ \A i \in 1..Len(s) : ~IsSpace(CharAt(s, i))

\* rx.MatchString(v) for the patterns above.  ^\S+@\S+$ matches when some
\* '@' of v splits it into two non-empty runs of \S (the runs may hold
\* further '@', which is in \S).
MatchString(rx, v) ==
    IF rx = EmailRx
    THEN \E i \in 1..Len(v) :
            /\ CharAt(v, i) = "@"
            /\ NonSpaceRun(SubSeq(v, 1, i - 1))
            /\ NonSpaceRun(SubSeq(v, i + 1, Len(v)))
    ELSE /\ v # ""
         /\ \A i \in 1..Len(v) : CharAt(v, i) = "a"

(* ---------------------------- recorders ----------------------------- *)

\* AddError gone wrong: the message replaces those of the field.
AddErrorOverwrite(field, errors, msg) == Store(errors, field, <<msg>>)

\* AddError: errors[field] = append(errors[field], msg).
AddError(field, errors, msg) ==
    Store(errors, field, Append(Lookup(errors, field), msg))

\* Validate gone wrong: the message is put before those of the field.
ValidatePrepend(field, errors, err) ==
    IF ~err.isNil
    THEN Store(errors, field, <<err.msg>> \o Lookup(errors, field))
    ELSE errors

\* Validate: records err.Error() under field unless err is nil.
Validate(field, errors, err) ==
    IF ~err.isNil
    THEN Store(errors, field, Append(Lookup(errors, field), err.msg))
    ELSE errors

(* ------------------- closures of the wrapped family ----------------- *)

\* The closure StringLength hands to Validate.
StringLengthErr(v, m, n) ==
    LET msg == IF m = n
               THEN "Must be exactly " \o FmtD(m) \o " characters long"
               ELSE "Must be between " \o FmtD(m) \o " and " \o FmtD(n)
                        \o " characters long"
    IN  IF len(v) < m \/ len(v) > n THEN Errorf(msg) ELSE NilError

\* The closure NumberBetween hands to Validate; v, m and n are the bits
\* of three variables of type T.
NumberBetweenErr(T, v, m, n) ==
    LET msg == IF m = n
               THEN "Must be exactly " \o FmtD(ValueOf(T, m)) \o ", but was "
                        \o FmtD(ValueOf(T, v))
               ELSE "Must be between " \o FmtD(ValueOf(T, m)) \o " and "
                        \o FmtD(ValueOf(T, n)) \o ", but was "
                        \o FmtD(ValueOf(T, v))
    IN  IF Less(T, v, m) \/ Less(T, n, v) THEN Errorf(msg) ELSE NilError

\* SizeErr gone wrong: a container of exactly m entries is too small.
SizeErrStrict(v, m, n) ==
    LET msg == IF m = n
               THEN "Must have exactly " \o FmtD(m) \o " entries, but had "
                        \o FmtD(lenOf(v))
               ELSE "Must have between " \o FmtD(m) \o " and " \o FmtD(n)
                        \o " entries, but had " \o FmtD(lenOf(v))
    IN  IF lenOf(v) <= m \/ lenOf(v) > n THEN Errorf(msg) ELSE NilError

\* The closure Size hands to Validate.
SizeErr(v, m, n) ==
    LET msg == IF m = n
               THEN "Must have exactly " \o FmtD(m) \o " entries, but had "
                        \o FmtD(lenOf(v))
               ELSE "Must have between " \o FmtD(m) \o " and " \o FmtD(n)
                        \o " entries, but had " \o FmtD(lenOf(v))
    IN  IF lenOf(v) < m \/ lenOf(v) > n THEN Errorf(msg) ELSE NilError

\* MinSizeErr gone wrong: the plural starts at a minimum of 1.
MinSizeErrPlural(v, n) ==
    LET entry == IF n >= 1 THEN "entries" ELSE "entry"
        msg == "Must have a minimum of " \o FmtD(n) \o " " \o entry
                   \o ", but had " \o FmtD(lenOf(v))
    IN  IF lenOf(v) < n THEN Errorf(msg) ELSE NilError

\* The closure MinSize hands to Validate.
MinSizeErr(v, n) ==
    LET entry == IF n > 1 THEN "entries" ELSE "entry"
        msg == "Must have a minimum of " \o FmtD(n) \o " " \o entry
                   \o ", but had " \o FmtD(lenOf(v))
    IN  IF lenOf(v) < n THEN Errorf(msg) ELSE NilError

\* The closure Regex hands to Validate.
RegexErr(rx, value, message) ==
    IF ~MatchString(rx, value) THEN Errorf(message) ELSE NilError

\* The closure Email hands to Validate.
EmailErr(rx, value, message) ==
    IF ~MatchString(rx, value) THEN Errorf(message) ELSE NilError

(* ---------------------------- state --------------------------------- *)

VARIABLES
    pass,     \* the validation pass: "single" call, or "several" calls
    errs,     \* the Errors map the Is* family is run on
    verrs,    \* the Errors map the wrapped family is run on
    call,     \* the invocation made last: the function and its arguments
    pc,       \* "is": an Is* check is invoked next; "wrapped": its twin is
    before,   \* the map of the family that ran last, as it was before
    isLog,    \* the invocations of the Is* family, in order
    vLog,     \* the invocations of the wrapped family, in order
    threads,  \* per goroutine: where it is in AddError or Validate
    fatal,    \* the runtime has stopped the program on a map write race
    overlapped \* two invocations have been in progress at the same time

vars == <<pass, errs, verrs, call, pc, before, isLog, vLog,
          threads, fatal, overlapped>>

\* The state of the sequential validation pass, and of the goroutines.
passVars == <<pass, verrs, call, pc, before, isLog, vLog>>
goVars == <<threads, fatal, overlapped>>

Goroutines == 1..MaxGoroutines

\* A goroutine that has not called yet.
Idle ==
    [pc |-> "idle", fn |-> "", field |-> "", msg |-> "", failed |-> FALSE,
     slice |-> <<>>]

(* ---------------------------- inputs -------------------------------- *)

\* A pass of a single call draws its arguments from the full sets below;
\* a pass of several calls draws them from a few values of each.
Single == pass = "single"

\* Field names of the form being validated.
Fields == {"name", "email"}

\* Values for the length check, as code points: of the letters a
\* (U+0061, one byte) and e with acute accent (U+00E9, two bytes).
LengthValues ==
    IF Single THEN RunesOver({97, 233}, MaxLen) ELSE {<<97>>, <<233>>}

\* Values for the email check: letters, '@' and white space.
EmailValues ==
    IF Single THEN StringsOver({"a", "@", " ", "\t"}, MaxLen)
    ELSE {"a@a", "a a@a"}

\* Values for the pattern check.
RegexValues == IF Single THEN StringsOver({"a", "@"}, MaxLen) ELSE {"a", "@"}

\* Messages a caller supplies: letters, '%' and the flag ' '.
Messages ==
    IF Single THEN StringsOver({"b", "%", " "}, MaxMsgLen) ELSE {"b", "%b"}

\* Bounds m and n a caller gives to a length or size check.
Limits == IF Single THEN 0..MaxLen ELSE {1, 2}

\* Minimum sizes a caller gives to MinSize.
Minimums == IF Single THEN -1..(MaxSize + 1) ELSE {1, 2}

\* Slices and maps of up to MaxSize entries.
Containers ==
    IF Single
    THEN {SliceOf(k) : k \in 0..MaxSize} \cup {MapOf(k) : k \in 0..MaxSize}
    ELSE {SliceOf(1), MapOf(1)}

\* Type arguments of the numeric range check.
NumericTypes == IF Single THEN NumericComparable ELSE {"int8", "uint8"}

\* Values of type T: its least and its greatest and, in a single call,
\* those next to zero.
NumbersOf(T) ==
    IF Single THEN {MinOf(T), MaxOf(T), 0, 1} \cup (IF Signed(T) THEN {-1} ELSE {})
    ELSE {MinOf(T), MaxOf(T)}

\* An invocation: fn is the check (named as in the wrapped family), v the
\* value of a pattern check and runes that of the length check, T the
\* type argument of NumberBetween and x its value (as the integer
\* denoted), c the container of Size and MinSize.
NoCall ==
    [fn |-> "none", field |-> "", v |-> "", runes |-> <<>>, T |-> "",
     x |-> 0, m |-> 0, n |-> 0, c |-> <<>>, rx |-> "", message |-> ""]

\* One entry of a log: whether the invocation reported a violation, and
\* the message it then handed to the recorder.
LogEntry(c, failed, msg) ==
    [field |-> c.field, failed |-> failed, msg |-> IF failed THEN msg ELSE ""]

Init ==
    /\ pass \in {"single", "several"}
    /\ errs = EmptyErrors
    /\ verrs = EmptyErrors
    /\ call = NoCall
    /\ pc = "is"
    /\ before = EmptyErrors
    /\ isLog = <<>>
    /\ vLog = <<>>
    /\ threads = [g \in Goroutines |-> Idle]
    /\ fatal = FALSE
    /\ overlapped = FALSE

\* The caller may make one more invocation in this validation pass.
CanCall ==
    /\ pc = "is"
    /\ Len(isLog) < (IF Single THEN 1 ELSE MaxCalls)

\* A check of the Is* family, invoked with arguments c, returns and leaves
\* the map as result.
IsReturn(c, result, failed, msg) ==
    /\ call' = c
    /\ before' = errs
    /\ errs' = result
    /\ isLog' = Append(isLog, LogEntry(c, failed, msg))
    /\ pc' = "wrapped"
    /\ UNCHANGED <<pass, verrs, vLog, goVars>>

\* The same caller has invoked the twin of the wrapped family with the
\* arguments of call; the closure returned err.
WrappedReturn(result, err) ==
    /\ call' = call
    /\ before' = verrs
    /\ verrs' = result
    /\ vLog' = Append(vLog, LogEntry(call, ~err.isNil, err.msg))
    /\ pc' = "is"
    /\ UNCHANGED <<pass, errs, isLog, goVars>>

(* ---------------------------- Is* family ---------------------------- *)

AddErrorCall ==
    /\ CanCall
    /\ \E field \in Fields, msg \in Messages :
        IsReturn([NoCall EXCEPT !.fn = "Validate", !.field = field,
                                !.message = msg],
                 AddError(field, errs, msg), TRUE, msg)

IsStringLength ==
    /\ CanCall
    /\ \E field \in Fields, v \in LengthValues, m \in Limits, n \in Limits :
        LET c == [NoCall EXCEPT !.fn = "StringLength", !.field = field,
                                !.runes = v, !.m = m, !.n = n]
            msg == IF m = n
                   THEN "Must be exactly " \o FmtD(m) \o " characters long"
                   ELSE "Must be between " \o FmtD(m) \o " and " \o FmtD(n)
                            \o " characters long"
        IN  IF len(v) < m \/ len(v) > n
            THEN IsReturn(c, AddError(field, errs, msg), TRUE, msg)
            ELSE IsReturn(c, errs, FALSE, msg)

IsNumberBetween ==
    /\ CanCall
    /\ \E field \in Fields, T \in NumericTypes :
      \E x \in NumbersOf(T), lo \in NumbersOf(T), hi \in NumbersOf(T) :
        LET c == [NoCall EXCEPT !.fn = "NumberBetween", !.field = field,
                                !.T = T, !.x = x, !.m = lo, !.n = hi]
            v == Bits(T, x)
            m == Bits(T, lo)
            n == Bits(T, hi)
            msg == IF m = n
                   THEN "Must be exactly " \o FmtD(ValueOf(T, m))
                            \o ", but was " \o FmtD(ValueOf(T, v))
                   ELSE "Must be between " \o FmtD(ValueOf(T, m)) \o " and "
                            \o FmtD(ValueOf(T, n)) \o ", but was "
                            \o FmtD(ValueOf(T, v))
        IN  IF Less(T, v, m) \/ Less(T, n, v)
            THEN IsReturn(c, AddError(field, errs, msg), TRUE, msg)
            ELSE IsReturn(c, errs, FALSE, msg)

IsSize ==
    /\ CanCall
    /\ \E field \in Fields, v \in Containers, m \in Limits, n \in Limits :
        LET c == [NoCall EXCEPT !.fn = "Size", !.field = field, !.c = v,
                                !.m = m, !.n = n]
            msg == IF m = n
                   THEN "Must have exactly " \o FmtD(m)
                            \o " entries, but had " \o FmtD(lenOf(v))
                   ELSE "Must have between " \o FmtD(m) \o " and " \o FmtD(n)
                            \o " entries, but had " \o FmtD(lenOf(v))
        IN  IF lenOf(v) < m \/ lenOf(v) > n
            THEN IsReturn(c, AddError(field, errs, msg), TRUE, msg)
            ELSE IsReturn(c, errs, FALSE, msg)

IsMinSize ==
    /\ CanCall
    /\ \E field \in Fields, v \in Containers, n \in Minimums :
        LET c == [NoCall EXCEPT !.fn = "MinSize", !.field = field, !.c = v,
                                !.n = n]
            entry == IF n > 1 THEN "entries" ELSE "entry"
            msg == "Must have a minimum of " \o FmtD(n) \o " " \o entry
                       \o ", but had " \o FmtD(lenOf(v))
        IN  IF lenOf(v) < n
            THEN IsReturn(c, AddError(field, errs, msg), TRUE, msg)
            ELSE IsReturn(c, errs, FALSE, msg)

\* The body of IsRegex, entered as fn: by the caller, or by IsEmail.
IsRegexBody(fn, field, v, rx, message) ==
    LET c == [NoCall EXCEPT !.fn = fn, !.field = field, !.v = v, !.rx = rx,
                            !.message = message]
    IN  IF ~MatchString(rx, v)
        THEN IsReturn(c, AddError(field, errs, message), TRUE, message)
        ELSE IsReturn(c, errs, FALSE, message)

IsRegex ==
    /\ CanCall
    /\ \E field \in Fields, v \in RegexValues, message \in Messages :
        IsRegexBody("Regex", field, v, LettersRx, message)

IsEmail ==
    /\ CanCall
    /\ \E field \in Fields, v \in EmailValues :
        IsRegexBody("Email", field, v, EmailRx, "Email address is invalid")

(* ---------------------------- wrapped family ------------------------ *)

\* Validate called by the caller itself, with an error of its own.
ValidateCall ==
    /\ pc = "wrapped" /\ call.fn = "Validate"
    /\ LET err == NewError(call.message)
       IN  WrappedReturn(Validate(call.field, verrs, err), err)

StringLength ==
    /\ pc = "wrapped" /\ call.fn = "StringLength"
    /\ LET err == StringLengthErr(call.runes, call.m, call.n)
       IN  WrappedReturn(Validate(call.field, verrs, err), err)

NumberBetween ==
    /\ pc = "wrapped" /\ call.fn = "NumberBetween"
    /\ LET err == NumberBetweenErr(call.T, Bits(call.T, call.x),
                                   Bits(call.T, call.m), Bits(call.T, call.n))
       IN  WrappedReturn(Validate(call.field, verrs, err), err)

Size ==
    /\ pc = "wrapped" /\ call.fn = "Size"
    /\ LET err == SizeErr(call.c, call.m, call.n)
       IN  WrappedReturn(Validate(call.field, verrs, err), err)

MinSize ==
    /\ pc = "wrapped" /\ call.fn = "MinSize"
    /\ LET err == MinSizeErr(call.c, call.n)
       IN  WrappedReturn(Validate(call.field, verrs, err), err)

Regex ==
    /\ pc = "wrapped" /\ call.fn = "Regex"
    /\ LET err == RegexErr(call.rx, call.v, call.message)
       IN  WrappedReturn(Validate(call.field, verrs, err), err)

Email ==
    /\ pc = "wrapped" /\ call.fn = "Email"
    /\ LET err == EmailErr(EmailRx, call.v, "Email address is invalid")
       IN  WrappedReturn(Validate(call.field, verrs, err), err)

Next ==
    \/ AddErrorCall
    \/ IsStringLength
    \/ IsNumberBetween
    \/ IsSize
    \/ IsMinSize
    \/ IsRegex
    \/ IsEmail
    \/ ValidateCall
    \/ StringLength
    \/ NumberBetween
    \/ Size
    \/ MinSize
    \/ Regex
    \/ Email

Spec == Init /\ [][Next]_vars

(* ---------------------------- goroutines --------------------------- *)

\* Neither recorder takes a lock: the statement
\*     errors[field] = append(errors[field], msg)
\* is a map read, an append to the slice read, and a map write, and the
\* goroutines' steps interleave.  The Go runtime stops the program when it
\* sees a map access during another goroutine's map write; it does not
\* see every one.

\* The message goroutine g records.
MsgOf(g) == "failure " \o ToString(g)

\* Goroutine g is inside a recorder.
InFlight(g) == threads[g].pc \in {"load", "store", "writing"}

\* Goroutine g enters a recorder while another is inside one.
Overlaps(g) == \E h \in Goroutines \ {g} : InFlight(h)

\* Goroutine g calls AddError(field, errs, MsgOf(g)).
GoAddError(g) ==
    /\ ~fatal
    /\ threads[g].pc = "idle"
    /\ \E field \in Fields :
          threads' = [threads EXCEPT ![g] =
                         [pc |-> "load", fn |-> "AddError", field |-> field,
                          msg |-> MsgOf(g), failed |-> TRUE, slice |-> <<>>]]
    /\ overlapped' = (overlapped \/ Overlaps(g))
    /\ UNCHANGED <<errs, fatal, passVars>>

\* Goroutine g calls Validate(field, errs, err): it returns at once when
\* err is nil.
GoValidate(g) ==
    /\ ~fatal
    /\ threads[g].pc = "idle"
    /\ \E field \in Fields, err \in {NilError, NewError(MsgOf(g))} :
          threads' = [threads EXCEPT ![g] =
                         [pc |-> IF ~err.isNil THEN "load" ELSE "done",
                          fn |-> "Validate", field |-> field, msg |-> err.msg,
                          failed |-> ~err.isNil, slice |-> <<>>]]
    /\ overlapped' = (overlapped \/ (Overlaps(g) /\ threads'[g].pc = "load"))
    /\ UNCHANGED <<errs, fatal, passVars>>

\* The map read errors[field].
Load(g) ==
    /\ ~fatal
    /\ threads[g].pc = "load"
    /\ threads' = [threads EXCEPT ![g].pc = "store",
                                  ![g].slice = Lookup(errs, threads[g].field)]
    /\ UNCHANGED <<errs, fatal, overlapped, passVars>>

\* The map write begins.
StoreBegin(g) ==
    /\ ~fatal
    /\ threads[g].pc = "store"
    /\ threads' = [threads EXCEPT ![g].pc = "writing"]
    /\ UNCHANGED <<errs, fatal, overlapped, passVars>>

\* The map write ends: errors[field] is the slice read, with the message
\* appended.
StoreEnd(g) ==
    /\ ~fatal
    /\ threads[g].pc = "writing"
    /\ errs' = Store(errs, threads[g].field,
                     Append(threads[g].slice, threads[g].msg))
    /\ threads' = [threads EXCEPT ![g].pc = "done"]
    /\ UNCHANGED <<fatal, overlapped, passVars>>

\* The runtime sees goroutine g access the map during another goroutine's
\* write: fatal error, concurrent map writes (or read and write).
Fatal(g) ==
    /\ ~fatal
    /\ threads[g].pc \in {"load", "store"}
    /\ \E h \in Goroutines \ {g} : threads[h].pc = "writing"
    /\ fatal' = TRUE
    /\ UNCHANGED <<errs, threads, overlapped, passVars>>

InitConc == Init /\ pass = "several"

NextConc ==
    \E g \in Goroutines :
        \/ GoAddError(g)
        \/ GoValidate(g)
        \/ Load(g)
        \/ StoreBegin(g)
        \/ StoreEnd(g)
        \/ Fatal(g)

SpecConc == InitConc /\ [][NextConc]_vars

(* ---------------------------- properties ---------------------------- *)

\* Some invocation has returned.
Ran == isLog # <<>>

\* The map of the family whose check returned last, and its log entry.
LastMap == IF pc = "wrapped" THEN errs ELSE verrs
LastEntry == IF pc = "wrapped" THEN isLog[Len(isLog)] ELSE vLog[Len(vLog)]

\* The messages a map holds for field f; none when f is not a key.
Under(map, f) == IF f \in DOMAIN map THEN map[f] ELSE <<>>

\* The map that differs from map by one more message, msg, at the end of
\* the messages of field f.
WithOneMore(map, f, msg) ==
    [k \in DOMAIN map \cup {f} |->
        IF k = f THEN Under(map, f) \o <<msg>> ELSE map[k]]

\* The last invocation appended msg for its field if violated holds, and
\* left the map as it was otherwise.
Reports(violated, msg) ==
    LastMap = IF violated THEN WithOneMore(before, call.field, msg) ELSE before

\* The messages of the failing invocations of log made with field f, in
\* the order of the invocations.
FailuresOf(log, f) ==
    LET failing == SelectSeq(log, LAMBDA e : e.field = f /\ e.failed)
    IN  [i \in 1..Len(failing) |-> failing[i].msg]

\* s is an initial part of t.
IsPrefix(s, t) == Len(s) <= Len(t) /\ SubSeq(t, 1, Len(s)) = s

\* C1: one invocation of a check of either family whose constraint is
\* satisfied leaves the map unchanged; one whose constraint is violated
\* makes the messages of its field one longer (the earlier ones kept) and
\* changes no other key.
C1_OneAppendOrNone ==
    Ran =>
        IF LastEntry.failed
        THEN /\ DOMAIN LastMap = DOMAIN before \cup {call.field}
             /\ Len(LastMap[call.field]) = Len(Under(before, call.field)) + 1
             /\ IsPrefix(Under(before, call.field), LastMap[call.field])
             /\ \A k \in DOMAIN before \ {call.field} : LastMap[k] = before[k]
        ELSE LastMap = before

\* A failing check of the wrapped family has appended a second message to
\* a field that already had one.
C1_Witness ==
    /\ Ran /\ pc = "is"
    /\ LastEntry.failed
    /\ call.field \in DOMAIN before
    /\ Len(Under(verrs, call.field)) = 2

\* C2: from the empty map, after any sequence of invocations, the
\* messages of every field are those of the failing invocations made with
\* that field, in invocation order; the field is a key exactly when one
\* of them failed; an invocation with another field leaves them alone, and
\* the messages before an invocation are a prefix of those after it.
C2_OrderAndIndependence ==
    \A f \in Fields :
        /\ Under(errs, f) = FailuresOf(isLog, f)
        /\ Under(verrs, f) = FailuresOf(vLog, f)
        /\ f \in DOMAIN errs <=> \E i \in 1..Len(isLog) :
                                    isLog[i].field = f /\ isLog[i].failed
        /\ f \in DOMAIN verrs <=> \E i \in 1..Len(vLog) :
                                     vLog[i].field = f /\ vLog[i].failed
        /\ Ran => /\ IsPrefix(Under(before, f), Under(LastMap, f))
                  /\ f # call.field => Under(LastMap, f) = Under(before, f)

\* Two different messages stand under one field of the wrapped family's
\* map after two failing invocations with it.
C2_Witness ==
    /\ pc = "is"
    /\ \E f \in Fields :
          /\ Len(Under(verrs, f)) = 2
          /\ verrs[f][1] # verrs[f][2]
          /\ vLog[1].msg = verrs[f][1]

\* C3: the length check on a value of L characters with bounds m and n
\* appends a message exactly when L < m or L > n: "Must be exactly {m}
\* characters long" when m = n, "Must be between {m} and {n} characters
\* long" otherwise.
C3_LengthInCharacters ==
    (Ran /\ call.fn = "StringLength") =>
        LET L == Len(call.runes)
        IN  Reports(L < call.m \/ L > call.n,
                    IF call.m = call.n
                    THEN "Must be exactly " \o ToString(call.m)
                             \o " characters long"
                    ELSE "Must be between " \o ToString(call.m) \o " and "
                             \o ToString(call.n) \o " characters long")

\* C4: the numeric range check on values v, m and n of one integer type
\* appends a message exactly when v < m or v > n in the order of the
\* integers: "Must be exactly {m}, but was {v}" when m = n, "Must be
\* between {m} and {n}, but was {v}" otherwise.
C4_NumberBetween ==
    (Ran /\ call.fn = "NumberBetween") =>
        Reports(call.x < call.m \/ call.x > call.n,
                IF call.m = call.n
                THEN "Must be exactly " \o ToString(call.m) \o ", but was "
                         \o ToString(call.x)
                ELSE "Must be between " \o ToString(call.m) \o " and "
                         \o ToString(call.n) \o ", but was "
                         \o ToString(call.x))

\* NumberBetween has reported the least int8 against a range that ends at
\* the greatest.
C4_Witness ==
    /\ pc = "is" /\ call.fn = "NumberBetween"
    /\ call.T = "int8" /\ call.x = -128 /\ call.m = -1 /\ call.n = 127
    /\ Under(verrs, call.field) = <<"Must be between -1 and 127, but was -128">>

\* C5 as claimed: the size check on a container of s entries appends a
\* message exactly when s < m or s > n, the same for a slice and a map:
\* "Must be exactly {m} entries long" when m = n, "Must be between {m} and
\* {n} entries long" otherwise.
C5_SizeAsLengthPhrasing ==
    (Ran /\ call.fn = "Size") =>
        LET s == Cardinality(DOMAIN call.c)
        IN  Reports(s < call.m \/ s > call.n,
                    IF call.m = call.n
                    THEN "Must be exactly " \o ToString(call.m)
                             \o " entries long"
                    ELSE "Must be between " \o ToString(call.m) \o " and "
                             \o ToString(call.n) \o " entries long")

\* C5 as amended: the size check on a container of s entries appends a
\* message exactly when s < m or s > n, the same for a slice and a map:
\* "Must have exactly {m} entries, but had {s}" when m = n, "Must have
\* between {m} and {n} entries, but had {s}" otherwise.
C5_Size ==
    (Ran /\ call.fn = "Size") =>
        LET s == Cardinality(DOMAIN call.c)
        IN  Reports(s < call.m \/ s > call.n,
                    IF call.m = call.n
                    THEN "Must have exactly " \o ToString(call.m)
                             \o " entries, but had " \o ToString(s)
                    ELSE "Must have between " \o ToString(call.m) \o " and "
                             \o ToString(call.n) \o " entries, but had "
                             \o ToString(s))

\* IsSize has reported a map of two keys against the exact size 1.
C5_Witness ==
    /\ pc = "wrapped" /\ call.fn = "Size"
    /\ DOMAIN call.c = {10, 20} /\ call.m = 1 /\ call.n = 1
    /\ Under(errs, call.field) = <<"Must have exactly 1 entries, but had 2">>

\* C6: the minimum size check on a container of s entries appends a
\* message exactly when s < n: "Must have a minimum of {n} entry, but had
\* {s}" when n <= 1, "Must have a minimum of {n} entries, but had {s}"
\* when n > 1.
C6_MinSize ==
    (Ran /\ call.fn = "MinSize") =>
        LET s == Cardinality(DOMAIN call.c)
        IN  Reports(s < call.n,
                    "Must have a minimum of " \o ToString(call.n)
                        \o (IF call.n <= 1 THEN " entry" ELSE " entries")
                        \o ", but had " \o ToString(s))

\* MinSize has reported an empty container against the minimum 1.
C6_Witness ==
    /\ pc = "is" /\ call.fn = "MinSize"
    /\ call.n = 1
    /\ Under(verrs, call.field) = <<"Must have a minimum of 1 entry, but had 0">>

\* White space as the class \s of the pattern has it.
HasSpace(v) ==
    \E i \in 1..Len(v) : SubSeq(v, i, i) \in {" ", "\t", "\n", "\f", "\r"}

\* The number of '@' in v.
CountAt(v) == Cardinality({i \in 1..Len(v) : SubSeq(v, i, i) = "@"})

\* C7 as claimed: the email check appends nothing exactly when the value
\* has no white space and exactly one '@', with at least one character on
\* each side of it; otherwise it appends "Email address is invalid".
C7_ExactlyOneAt ==
    (Ran /\ call.fn = "Email") =>
        Reports(~(/\ ~HasSpace(call.v)
                  /\ CountAt(call.v) = 1
                  /\ SubSeq(call.v, 1, 1) # "@"
                  /\ SubSeq(call.v, Len(call.v), Len(call.v)) # "@"),
                "Email address is invalid")

\* C7 as amended: the email check appends nothing exactly when the value
\* has no character of the class \s (space, tab, newline, form feed,
\* carriage return) and has an '@' that is neither its first nor its last
\* character; otherwise it appends "Email address is invalid".
C7_Email ==
    (Ran /\ call.fn = "Email") =>
        Reports(~(/\ ~HasSpace(call.v)
                  /\ \E i \in 2..(Len(call.v) - 1) : SubSeq(call.v, i, i) = "@"),
                "Email address is invalid")

\* IsEmail has accepted a value with two '@'.
C7_Witness ==
    /\ pc = "wrapped" /\ call.fn = "Email"
    /\ call.v = "@@a"
    /\ errs = before

\* C8: the pattern check of either family appends the caller's message,
\* character for character, when the value does not match the pattern,
\* and nothing when it matches.
C8_MessageVerbatim ==
    (Ran /\ call.fn = "Regex") =>
        Reports(~MatchString(call.rx, call.v), call.message)

\* C9: after the same invocations with the same arguments from equal
\* maps, the maps of the two families are equal.
C9_FamiliesAgree == pc = "is" => errs = verrs

\* Every goroutine's invocation has returned.
AllReturned == \A g \in Goroutines : threads[g].pc = "done"

\* The message of every failing invocation is in the map exactly once.
EveryFailureOnce ==
    \A g \in Goroutines :
        threads[g].failed =>
            Cardinality({i \in 1..Len(Under(errs, threads[g].field)) :
                            errs[threads[g].field][i] = threads[g].msg}) = 1

\* C10 as claimed: when failing checks are invoked concurrently on one
\* map, no append is lost: after all have returned, every failing
\* invocation's message is in the map exactly once.
C10_NoAppendLost == AllReturned => EveryFailureOnce

\* C10 as amended: the recorders do not guard the append; when the
\* invocations on one map do not overlap (each returns before the next is
\* made), every failing invocation's message is in the map exactly once
\* after all have returned.
C10_NoAppendLostInSequence ==
    (AllReturned /\ ~overlapped) => EveryFailureOnce

\* Two failing invocations made one after the other have left their two
\* messages under one field.
C10_Witness ==
    /\ AllReturned /\ ~overlapped
    /\ \E f \in Fields : Len(Under(errs, f)) >= 2

=============================================================================
